---- MODULE Spec2Model ----
(***************************************************************************)
(* Model of the node-wrapper / traversal / mutation core of               *)
(* src/src/JsNode.ts (JsNode, JsNodeList).                                 *)
(*                                                                         *)
(* The raw tree is a heap of raw nodes; every raw node keeps its child     *)
(* nodes in one list-valued field (kids).  A path (ast.NodePath) is the    *)
(* chain of raw nodes from the node the path object was built from down to *)
(* its value, tagged with the traversal that created it: two paths are the *)
(* same object exactly when tag and chain agree.  A wrapper (JsNode) is a  *)
(* class name plus one path.                                               *)
(***************************************************************************)
EXTENDS Integers, Sequences, FiniteSets, TLC

\* ------------------------------------------------------------------ bounds
\* Number of raw nodes of the parsed tree (node 1 is the File node).
MaxNode == 4
\* Number of freshly built raw nodes that can be handed to replace().
MaxNew == 1
\* Number of searches (traversals that hand out wrappers or lists) in one run.
MaxSteps == 2
\* Number of structural edits in one run.
MaxEdits == 1
\* Number of wrappers a run keeps besides the parse root.
MaxWrap == 2

\* Number of arguments a builder specification (meta) declares.
MaxArgs == 2
\* Number of children handed to build().
MaxKids == 2

\* Number of classes that carry the same name.
MaxVer == 2
\* Number of registerType calls in one run.
MaxRegs == 3
MaxList == 3
MaxListEdits == 2

TreeNodes == 1..MaxNode
NewNodes == (MaxNode + 1)..(MaxNode + MaxNew)
Nodes == TreeNodes \cup NewNodes

VARIABLES
  kids,     \* the raw tree: raw node -> sequence of its child raw nodes
  ws,       \* the wrappers the caller holds; ws[1] came from JsNode.parse
  list,     \* the JsNodeList the caller holds
  other,    \* a second JsNodeList the caller holds
  dead,     \* the path objects whose value was deleted by prune()
  steps,    \* number of searches made; also the tag of the next traversal
  edits,    \* number of structural edits made
  last,     \* the last API call: arguments, result, the state before it
  registeredTypes,  \* JsNode.registeredTypes: type name -> registered class
  registrations     \* the classes handed to registerType so far, in order

vars == <<kids, ws, list, other, dead, steps, edits, last,
          registeredTypes, registrations>>

\* ------------------------------------------------------------- raw nodes
\* node.type of a raw node.
TypeOf(n) ==
  IF n = 1 THEN "File" ELSE IF n % 2 = 0 THEN "Identifier" ELSE "Literal"

Types == {"Identifier", "Literal"}

\* ----------------------------------------------------------------- paths
NoPath == [tok |-> 0, chain |-> <<>>]
IsPath(p) == Len(p.chain) > 0
\* new ast.NodePath(node), and the path visit() builds for its root node.
RootPath(t, n) == [tok |-> t, chain |-> <<n>>]
\* path.value
Value(p) == p.chain[Len(p.chain)]
\* path.parent: the path of the enclosing raw node, null at the path's root.
HasParentPath(p) == Len(p.chain) > 1
ParentPath(p) ==
  IF HasParentPath(p)
  THEN [tok |-> p.tok, chain |-> SubSeq(p.chain, 1, Len(p.chain) - 1)]
  ELSE NoPath
\* path.get(field, index) of a child node.
ChildPath(p, c) == [tok |-> p.tok, chain |-> Append(p.chain, c)]

\* Array.prototype.indexOf, 1-based; 0 when absent.
IndexOf(seq, x) ==
  IF \E i \in 1..Len(seq) : seq[i] = x
  THEN CHOOSE i \in 1..Len(seq) : seq[i] = x /\ \A j \in 1..(i - 1) : seq[j] # x
  ELSE 0
RemoveAt(seq, i) == SubSeq(seq, 1, i - 1) \o SubSeq(seq, i + 1, Len(seq))
IsPrefix(a, b) == Len(a) <= Len(b) /\ SubSeq(b, 1, Len(a)) = a

\* The parent's list still holds the path's value: path.replace() and
\* path.prune() first look the value up in the parent and fail otherwise.
InParent(k, p) ==
  HasParentPath(p) /\ IndexOf(k[Value(ParentPath(p))], Value(p)) > 0
\* path.prune(): the value is taken out of the parent's list.
Prune(k, p) ==
  LET m == Value(ParentPath(p))
  IN [k EXCEPT ![m] = RemoveAt(@, IndexOf(@, Value(p)))]
\* path.replace(node): the parent's slot that held the value now holds node.
PathReplace(k, p, n) ==
  LET m == Value(ParentPath(p))
  IN [k EXCEPT ![m] = [@ EXCEPT ![IndexOf(@, Value(p))] = n]]
\* What a holder of path object q sees after path object p got value n:
\* q is p, or p is one of q's ancestor path objects.
Rebind(q, p, n) ==
  IF q.tok = p.tok /\ IsPrefix(p.chain, q.chain)
  THEN [q EXCEPT !.chain = [@ EXCEPT ![Len(p.chain)] = n]]
  ELSE q
\* The path object or one of its ancestor path objects lost its value.
Broken(p, gone) ==
  \E d \in gone : d.tok = p.tok /\ IsPrefix(d.chain, p.chain)

\* -------------------------------------------------------------- wrappers
NoWrapper == [cls |-> "none", path |-> NoPath]
IsWrapper(w) == IsPath(w.path)
\* The type names create() is asked for, and the classes that can be
\* registered: a class is its name (type.name) and which of the classes of
\* that name it is.  NoType stands for no entry (undefined).
TypeNames == {"File", "Identifier", "Literal", "Program"}
ClassNames == {"File", "Identifier", "Literal"}
Classes == [name : ClassNames, ver : 1..MaxVer]
NoType == 0
\* registerType() that leaves an entry that is already there alone.
Registered_KeepsFirst(reg, type) ==
  IF reg[type.name] = NoType THEN [reg EXCEPT ![type.name] = type.ver] ELSE reg
\* JsNode.registeredTypes[type.name] = type
Registered(reg, type) == [reg EXCEPT ![type.name] = type.ver]
\* JsNode.getType(typeName)
getType(typeName) == registeredTypes[typeName]
\* JsNode.create(typeName): new type(), or a plain JsNode when the name has
\* no entry.
create(typeName) ==
  LET type == getType(typeName) IN
  IF type = NoType
  THEN [cls |-> "JsNode", ver |-> NoType]
  ELSE [cls |-> typeName, ver |-> type]
\* JsNode.fromPath: create(path.value.type), then the path is assigned.
FromPath(p) == [cls |-> create(TypeOf(Value(p))).cls, path |-> p]
\* What the node getter yields for a wrapper without a path (null), and the
\* value of the path made from a builder result of undefined.
NullNode == 0
UndefinedNode == 0 - 1
\* JsNode.node getter: this.path ? this._path.value : null
NodeOf(w) == IF IsPath(w.path) THEN Value(w.path) ELSE NullNode
\* JsNode.hasParent
HasParent(w) == IsPath(w.path) /\ HasParentPath(w.path)

\* ------------------------------------------------------------ predicates
\* A caller's predicate is the set of raw nodes whose wrapper it accepts;
\* given = FALSE is the omitted (undefined) predicate.
NoPred == [given |-> FALSE, sat |-> {}]
Preds ==
  {NoPred} \cup
  {[given |-> TRUE, sat |-> S] :
     S \in {T \in SUBSET TreeNodes : Cardinality(T) <= 2 \/ T = TreeNodes}}
\* !predicate || predicate(node)
PredOk(pred, n) == (~pred.given) \/ (n \in pred.sat)

\* A type argument: a class with or without a static check().
\* checkType(node, type): type.check ? type.check(node) : node instanceof type
checkType(w, type) == w.cls = type
\* checkTypes(node, types)
checkTypes(w, types) == \E t \in types : checkType(w, t)

\* ------------------------------------------------------------ traversal
\* State threaded through one visit(): the tree, the result of the search,
\* and the order in which the callback saw nodes and called the predicate.
VisitState(k) ==
  [kids |-> k, result |-> NoPath, paths |-> <<>>,
   visited |-> <<>>, evaluated |-> <<>>]

\* descend() whose callback forgets that a match was already found.
DescendVisitNode_NoResultGuard(cb, p, st) ==
  LET s1 == [st EXCEPT !.visited = Append(@, Value(p))] IN
  IF Value(p) = cb.self
  THEN [st |-> s1, traverse |-> TRUE, gone |-> FALSE]
  ELSE LET s2 == [s1 EXCEPT !.evaluated =
                     IF cb.pred.given THEN Append(@, Value(p)) ELSE @] IN
       IF PredOk(cb.pred, Value(p))
       THEN [st |-> [s2 EXCEPT !.result = p], traverse |-> FALSE, gone |-> FALSE]
       ELSE [st |-> s2, traverse |-> TRUE, gone |-> FALSE]

\* descend() whose callback keeps walking into the nodes it sees after the
\* match instead of returning false.
DescendVisitNode_WalksOn(cb, p, st) ==
  LET s1 == [st EXCEPT !.visited = Append(@, Value(p))] IN
  IF Value(p) = cb.self
  THEN [st |-> s1, traverse |-> TRUE, gone |-> FALSE]
  ELSE IF ~IsPath(st.result)
  THEN LET s2 == [s1 EXCEPT !.evaluated =
                     IF cb.pred.given THEN Append(@, Value(p)) ELSE @] IN
       IF PredOk(cb.pred, Value(p))
       THEN [st |-> [s2 EXCEPT !.result = p], traverse |-> FALSE, gone |-> FALSE]
       ELSE [st |-> s2, traverse |-> TRUE, gone |-> FALSE]
  ELSE [st |-> s1, traverse |-> TRUE, gone |-> FALSE]

\* visitNode of descend().  self = this.node.
DescendVisitNode(cb, p, st) ==
  LET s1 == [st EXCEPT !.visited = Append(@, Value(p))] IN
  IF Value(p) = cb.self
  THEN [st |-> s1, traverse |-> TRUE, gone |-> FALSE]
  ELSE IF ~IsPath(st.result)
  THEN LET s2 == [s1 EXCEPT !.evaluated =
                     IF cb.pred.given THEN Append(@, Value(p)) ELSE @] IN
       IF PredOk(cb.pred, Value(p))
       THEN [st |-> [s2 EXCEPT !.result = p], traverse |-> FALSE, gone |-> FALSE]
       ELSE [st |-> s2, traverse |-> TRUE, gone |-> FALSE]
  ELSE [st |-> s1, traverse |-> FALSE, gone |-> FALSE]

\* findChildren() whose callback does not walk into a node it has matched.
FindChildrenVisitNode_StopsAtMatch(cb, p, st) ==
  LET s1 == [st EXCEPT !.visited = Append(@, Value(p))] IN
  IF Value(p) = cb.self /\ ~cb.includeSelf
  THEN [st |-> s1, traverse |-> TRUE, gone |-> FALSE]
  ELSE LET s2 == [s1 EXCEPT !.evaluated =
                     IF cb.pred.given THEN Append(@, Value(p)) ELSE @] IN
       IF PredOk(cb.pred, Value(p))
       THEN [st |-> [s2 EXCEPT !.paths = Append(@, p)],
             traverse |-> FALSE, gone |-> FALSE]
       ELSE [st |-> s2, traverse |-> TRUE, gone |-> FALSE]

\* visitNode of findChildren().
FindChildrenVisitNode(cb, p, st) ==
  LET s1 == [st EXCEPT !.visited = Append(@, Value(p))] IN
  IF Value(p) = cb.self /\ ~cb.includeSelf
  THEN [st |-> s1, traverse |-> TRUE, gone |-> FALSE]
  ELSE LET s2 == [s1 EXCEPT !.evaluated =
                     IF cb.pred.given THEN Append(@, Value(p)) ELSE @] IN
       IF PredOk(cb.pred, Value(p))
       THEN [st |-> [s2 EXCEPT !.paths = Append(@, p)],
             traverse |-> TRUE, gone |-> FALSE]
       ELSE [st |-> s2, traverse |-> TRUE, gone |-> FALSE]

\* visitNode of findFirstChildOfType().  The predicate is only called on
\* nodes that pass checkType; the match is upgraded with castTo(type), which
\* returns the wrapper itself because it already is an instance of the type.
FindFirstChildOfTypeVisitNode(cb, p, st) ==
  LET s1 == [st EXCEPT !.visited = Append(@, Value(p))] IN
  IF Value(p) = cb.self /\ ~cb.includeSelf
  THEN [st |-> s1, traverse |-> TRUE, gone |-> FALSE]
  ELSE IF ~IsPath(st.result)
  THEN LET typeOk == checkTypes(FromPath(p), cb.types)
           s2 == [s1 EXCEPT !.evaluated =
                     IF typeOk /\ cb.pred.given THEN Append(@, Value(p)) ELSE @]
       IN IF typeOk /\ PredOk(cb.pred, Value(p))
          THEN [st |-> [s2 EXCEPT !.result = p], traverse |-> FALSE, gone |-> FALSE]
          ELSE [st |-> s2, traverse |-> TRUE, gone |-> FALSE]
  ELSE [st |-> s1, traverse |-> FALSE, gone |-> FALSE]

\* visitNode of findChildrenOfType() (types = {type}) and of
\* findChildrenOfTypes(): checkType / checkTypes, then the predicate.
FindChildrenOfTypesVisitNode(cb, p, st) ==
  LET s1 == [st EXCEPT !.visited = Append(@, Value(p))] IN
  IF Value(p) = cb.self /\ ~cb.includeSelf
  THEN [st |-> s1, traverse |-> TRUE, gone |-> FALSE]
  ELSE LET typeOk == checkTypes(FromPath(p), cb.types)
           s2 == [s1 EXCEPT !.evaluated =
                     IF typeOk /\ cb.pred.given THEN Append(@, Value(p)) ELSE @]
       IN IF typeOk /\ PredOk(cb.pred, Value(p))
          THEN [st |-> [s2 EXCEPT !.paths = Append(@, p)],
                traverse |-> TRUE, gone |-> FALSE]
          ELSE [st |-> s2, traverse |-> TRUE, gone |-> FALSE]

\* visitNode of children(): p.parent && p.parent.node === self.
ChildrenVisitNode(cb, p, st) ==
  LET s1 == [st EXCEPT !.visited = Append(@, Value(p))] IN
  IF HasParentPath(p) /\ Value(ParentPath(p)) = cb.self
  THEN [st |-> [s1 EXCEPT !.paths = Append(@, p)],
        traverse |-> TRUE, gone |-> FALSE]
  ELSE [st |-> s1, traverse |-> TRUE, gone |-> FALSE]

\* removeChildren() whose callback does not look at the parent of the node.
RemoveChildrenVisitNode_AnyDepth(cb, p, st) ==
  LET s1 == [st EXCEPT !.visited = Append(@, Value(p))] IN
  IF HasParentPath(p)
  THEN LET s2 == [s1 EXCEPT !.evaluated =
                     IF cb.pred.given THEN Append(@, Value(p)) ELSE @] IN
       IF PredOk(cb.pred, Value(p))
       THEN [st |-> [s2 EXCEPT !.kids = Prune(@, p)],
             traverse |-> TRUE, gone |-> TRUE]
       ELSE [st |-> s2, traverse |-> TRUE, gone |-> FALSE]
  ELSE [st |-> s1, traverse |-> TRUE, gone |-> FALSE]

\* visitNode of removeChildren(): direct children that satisfy the predicate
\* are pruned; traverse(p) of a pruned path finds no value to walk into.
RemoveChildrenVisitNode(cb, p, st) ==
  LET s1 == [st EXCEPT !.visited = Append(@, Value(p))] IN
  IF HasParentPath(p) /\ Value(ParentPath(p)) = cb.self
  THEN LET s2 == [s1 EXCEPT !.evaluated =
                     IF cb.pred.given THEN Append(@, Value(p)) ELSE @] IN
       IF PredOk(cb.pred, Value(p))
       THEN [st |-> [s2 EXCEPT !.kids = Prune(@, p)],
             traverse |-> TRUE, gone |-> TRUE]
       ELSE [st |-> s2, traverse |-> TRUE, gone |-> FALSE]
  ELSE [st |-> s1, traverse |-> TRUE, gone |-> FALSE]

\* visitNode of removeDescendants(): the predicate is called on every path
\* the walk reaches, the start node included.  A path that satisfies it is
\* pruned; the path visit() built for the start node has no parent list to
\* take the value out of, so pruning it only empties that path, and
\* traverse(p) of an emptied path finds no value to walk into.
RemoveDescendantsVisitNode(cb, p, st) ==
  LET s1 == [st EXCEPT !.visited = Append(@, Value(p)),
                       !.evaluated = Append(@, Value(p))] IN
  IF PredOk(cb.pred, Value(p))
  THEN [st |-> IF HasParentPath(p) THEN [s1 EXCEPT !.kids = Prune(@, p)] ELSE s1,
        traverse |-> TRUE, gone |-> TRUE]
  ELSE [st |-> s1, traverse |-> TRUE, gone |-> FALSE]

\* The visitNode method of the visitor object handed to visit().
VisitNode(cb, p, st) ==
  CASE cb.op = "descend" -> DescendVisitNode(cb, p, st)
    [] cb.op = "findChildren" -> FindChildrenVisitNode(cb, p, st)
    [] cb.op = "findFirstChildOfType" -> FindFirstChildOfTypeVisitNode(cb, p, st)
    [] cb.op = "findChildrenOfTypes" -> FindChildrenOfTypesVisitNode(cb, p, st)
    [] cb.op = "children" -> ChildrenVisitNode(cb, p, st)
    [] cb.op = "removeChildren" -> RemoveChildrenVisitNode(cb, p, st)
    [] cb.op = "removeDescendants" -> RemoveDescendantsVisitNode(cb, p, st)

\* PathVisitor: call visitNode on the path; when it called this.traverse(p)
\* visit the child paths that the node had at that moment, in order.
RECURSIVE VisitWithoutReset(_, _, _)
RECURSIVE VisitChildren(_, _, _, _, _)
VisitWithoutReset(cb, p, st) ==
  LET r == VisitNode(cb, p, st) IN
  IF r.traverse /\ ~r.gone
  THEN VisitChildren(cb, p, r.st.kids[Value(p)], 1, r.st)
  ELSE r.st

VisitChildren(cb, p, snap, i, st) ==
  IF i > Len(snap) THEN st
  ELSE VisitChildren(cb, p, snap, i + 1,
                     VisitWithoutReset(cb, ChildPath(p, snap[i]), st))

\* recast.visit(node, methods): the walk starts at a path built from node.
visit(t, n, cb, k) == VisitWithoutReset(cb, RootPath(t, n), VisitState(k))

\* ---------------------------------------------------------------- state
\* Trees the parser can hand over: node 1 is the root, every other node
\* hangs below an earlier node, children in ascending order.
Parents == {f \in [2..MaxNode -> TreeNodes] : \A i \in 2..MaxNode : f[i] < i}

RECURSIVE SortedSeq(_)
SortedSeq(S) ==
  IF S = {} THEN <<>>
  ELSE LET m == CHOOSE x \in S : \A y \in S : x <= y
       IN <<m>> \o SortedSeq(S \ {m})

KidsOf(f) ==
  [n \in Nodes |->
     IF n \in TreeNodes THEN SortedSeq({i \in 2..MaxNode : f[i] = n}) ELSE <<>>]

NoList == [type |-> "", paths |-> <<>>]
\* The second list also tells whether its _paths is the very array object
\* that list holds.
NoOther == [type |-> "", paths |-> <<>>, shared |-> FALSE]

\* The record of a call: what was asked, what came back, and the state the
\* call started from.
NoCall ==
  [op |-> "none", src |-> NoWrapper, idx |-> 0, pred |-> NoPred,
   build |-> <<>>, name |-> "", made |-> [cls |-> "", ver |-> NoType],
   same |-> FALSE, ok |-> FALSE, index |-> 0, err |-> "",
   includeSelf |-> FALSE, types |-> {}, arg |-> 0, wrapped |-> FALSE,
   threw |-> FALSE,
   res |-> NoWrapper, paths |-> <<>>, visited |-> <<>>, evaluated |-> <<>>,
   which |-> 0, out |-> NoList,
   kids0 |-> kids, ws0 |-> ws, list0 |-> list, other0 |-> other]

\* The registry once the module that declares the node classes is loaded.
LoadedTypes == [name \in TypeNames |-> IF name \in ClassNames THEN 1 ELSE NoType]
LoadedRegistrations ==
  <<[name |-> "File", ver |-> 1], [name |-> "Identifier", ver |-> 1],
    [name |-> "Literal", ver |-> 1]>>

Init ==
  /\ registeredTypes = LoadedTypes
  /\ registrations = LoadedRegistrations
  /\ \E f \in Parents : kids = KidsOf(f)
  /\ ws = <<FromPath(RootPath(0, 1))>>
  /\ list = NoList
  /\ other = NoOther
  /\ dead = {}
  /\ steps = 0
  /\ edits = 0
  /\ last = NoCall

\* A wrapper the caller holds whose path still has a value.
Live(i) == i \in 1..Len(ws) /\ ~Broken(ws[i].path, dead)

\* The caller keeps a wrapper it was handed.
Keep(w) == IF IsWrapper(w) /\ Len(ws) <= MaxWrap THEN Append(ws, w) ELSE ws

\* JsNode.descend(predicate)
Descend(i, pred) ==
  /\ steps < MaxSteps
  /\ Live(i)
  /\ LET w == ws[i]
         st == visit(steps + 1, NodeOf(w),
                     [op |-> "descend", self |-> NodeOf(w), pred |-> pred], kids)
         res == IF IsPath(st.result) THEN FromPath(st.result) ELSE NoWrapper
     IN /\ ws' = Keep(res)
        /\ last' = [NoCall EXCEPT !.op = "descend", !.src = w, !.idx = i, !.pred = pred,
                      !.res = res, !.visited = st.visited,
                      !.evaluated = st.evaluated]
  /\ steps' = steps + 1
  /\ UNCHANGED <<kids, list, dead, edits>>
  /\ UNCHANGED <<registeredTypes, registrations, other>>

\* JsNode.findChildren(predicate, includeSelf)
FindChildren(i, pred, includeSelf) ==
  /\ steps < MaxSteps
  /\ Live(i)
  /\ LET w == ws[i]
         st == visit(steps + 1, NodeOf(w),
                     [op |-> "findChildren", self |-> NodeOf(w), pred |-> pred,
                      includeSelf |-> includeSelf], kids)
     IN /\ list' = [type |-> "", paths |-> st.paths]
        /\ last' = [NoCall EXCEPT !.op = "findChildren", !.src = w,
                      !.pred = pred, !.includeSelf = includeSelf,
                      !.paths = st.paths, !.visited = st.visited,
                      !.evaluated = st.evaluated]
  /\ steps' = steps + 1
  /\ UNCHANGED <<kids, ws, dead, edits>>
  /\ other' = [other EXCEPT !.shared = FALSE]
  /\ UNCHANGED <<registeredTypes, registrations>>

\* JsNode.findFirstChildOfType(type, predicate, includeSelf)
FindFirstChildOfType(i, type, pred, includeSelf) ==
  /\ steps < MaxSteps
  /\ Live(i)
  /\ LET w == ws[i]
         st == visit(steps + 1, NodeOf(w),
                     [op |-> "findFirstChildOfType", self |-> NodeOf(w),
                      types |-> {type}, pred |-> pred,
                      includeSelf |-> includeSelf], kids)
         res == IF IsPath(st.result) THEN FromPath(st.result) ELSE NoWrapper
     IN /\ ws' = Keep(res)
        /\ last' = [NoCall EXCEPT !.op = "findFirstChildOfType", !.src = w,
                      !.pred = pred, !.includeSelf = includeSelf,
                      !.types = {type}, !.res = res, !.visited = st.visited,
                      !.evaluated = st.evaluated]
  /\ steps' = steps + 1
  /\ UNCHANGED <<kids, list, dead, edits>>
  /\ UNCHANGED <<registeredTypes, registrations, other>>

\* JsNode.findChildrenOfType(type, predicate, includeSelf)
FindChildrenOfType(i, type, pred, includeSelf) ==
  /\ steps < MaxSteps
  /\ Live(i)
  /\ LET w == ws[i]
         st == visit(steps + 1, NodeOf(w),
                     [op |-> "findChildrenOfTypes", self |-> NodeOf(w),
                      types |-> {type}, pred |-> pred,
                      includeSelf |-> includeSelf], kids)
     IN /\ list' = [type |-> type, paths |-> st.paths]
        /\ last' = [NoCall EXCEPT !.op = "findChildrenOfType", !.src = w,
                      !.pred = pred, !.includeSelf = includeSelf,
                      !.types = {type}, !.paths = st.paths,
                      !.visited = st.visited, !.evaluated = st.evaluated]
  /\ steps' = steps + 1
  /\ UNCHANGED <<kids, ws, dead, edits>>
  /\ other' = [other EXCEPT !.shared = FALSE]
  /\ UNCHANGED <<registeredTypes, registrations>>

\* JsNode.findChildrenOfTypes(types, predicate, includeSelf)
FindChildrenOfTypes(i, types, pred, includeSelf) ==
  /\ steps < MaxSteps
  /\ Live(i)
  /\ LET w == ws[i]
         st == visit(steps + 1, NodeOf(w),
                     [op |-> "findChildrenOfTypes", self |-> NodeOf(w),
                      types |-> types, pred |-> pred,
                      includeSelf |-> includeSelf], kids)
     IN /\ list' = [type |-> "", paths |-> st.paths]
        /\ last' = [NoCall EXCEPT !.op = "findChildrenOfTypes", !.src = w,
                      !.pred = pred, !.includeSelf = includeSelf,
                      !.types = types, !.paths = st.paths,
                      !.visited = st.visited, !.evaluated = st.evaluated]
  /\ steps' = steps + 1
  /\ UNCHANGED <<kids, ws, dead, edits>>
  /\ other' = [other EXCEPT !.shared = FALSE]
  /\ UNCHANGED <<registeredTypes, registrations>>

\* JsNode.children()
Children(i) ==
  /\ steps < MaxSteps
  /\ Live(i)
  /\ LET w == ws[i]
         st == visit(steps + 1, NodeOf(w),
                     [op |-> "children", self |-> NodeOf(w)], kids)
     IN /\ list' = [type |-> "", paths |-> st.paths]
        /\ last' = [NoCall EXCEPT !.op = "children", !.src = w,
                      !.paths = st.paths, !.visited = st.visited]
  /\ steps' = steps + 1
  /\ UNCHANGED <<kids, ws, dead, edits>>
  /\ other' = [other EXCEPT !.shared = FALSE]
  /\ UNCHANGED <<registeredTypes, registrations>>

\* JsNodeList.getTypedNode(index): a wrapper over the index-th path; a list
\* with a declared type constructs that type, otherwise JsNode.fromPath.
getTypedNode(l, index) ==
  IF l.type # ""
  THEN [cls |-> l.type, path |-> l.paths[index + 1]]
  ELSE FromPath(l.paths[index + 1])

\* if (index >= this._paths.length) throw, in getTypedNode().
IndexThrows_Beyond(l, index) == index > Len(l.paths)
IndexThrows(l, index) == index >= Len(l.paths)

\* JsNodeList.at(index): the error, or the wrapper getTypedNode() makes.  An
\* element read beyond the array is undefined, so the wrapper has no path.
at(l, index) ==
  IF IndexThrows(l, index)
  THEN [res |-> NoWrapper, threw |-> TRUE, err |-> "Index out of bounds"]
  ELSE IF index >= Len(l.paths)
  THEN [res |-> [cls |-> l.type, path |-> NoPath], threw |-> FALSE, err |-> ""]
  ELSE [res |-> getTypedNode(l, index), threw |-> FALSE, err |-> ""]

\* if (this.size() > 0) in first() and last()
first(l) ==
  IF Len(l.paths) > 0 THEN at(l, 0)
  ELSE [res |-> NoWrapper, threw |-> FALSE, err |-> ""]
last_(l) ==
  IF Len(l.paths) > 0 THEN at(l, Len(l.paths) - 1)
  ELSE [res |-> NoWrapper, threw |-> FALSE, err |-> ""]

\* The caller reads an element of the list and keeps the wrapper: r is what
\* the list method gave.  The element's path still has its value.
ListRead(op, index, r) ==
  /\ steps < MaxSteps
  /\ Len(ws) <= MaxWrap
  /\ IsWrapper(r.res) => ~Broken(r.res.path, dead)
  /\ ws' = Keep(r.res)
  /\ last' = [NoCall EXCEPT !.op = op, !.index = index, !.res = r.res,
                !.threw = r.threw, !.err = r.err]
  /\ steps' = IF r.threw THEN steps ELSE steps + 1
  /\ UNCHANGED <<kids, list, dead, edits>>
  /\ UNCHANGED <<registeredTypes, registrations, other>>

\* JsNodeList.at(index)
At(index) == ListRead("at", index, at(list, index))
\* JsNodeList.first()
First == ListRead("first", 0, first(list))
\* JsNodeList.last()
Last == ListRead("last", 0, last_(list))

\* The list a call is made on, 1 for list and 2 for other, and the list
\* handed to it as an argument.
Sel(which) ==
  IF which = 1 THEN list ELSE [type |-> other.type, paths |-> other.paths]
Arg(which) == Sel(3 - which)

\* this._paths = ...: the list gets a new array, which no other list holds.
Assigned(which, paths) ==
  IF which = 1
  THEN /\ list' = [list EXCEPT !.paths = paths]
       /\ other' = [other EXCEPT !.shared = FALSE]
  ELSE /\ other' = [other EXCEPT !.paths = paths, !.shared = FALSE]
       /\ UNCHANGED list
\* this._paths.push(...): the array changes, for every list that holds it.
Mutated(which, paths) ==
  IF which = 1
  THEN /\ list' = [list EXCEPT !.paths = paths]
       /\ other' = IF other.shared THEN [other EXCEPT !.paths = paths] ELSE other
  ELSE /\ other' = [other EXCEPT !.paths = paths]
       /\ list' = IF other.shared THEN [list EXCEPT !.paths = paths] ELSE list

\* The raw node a wrapper over the path shows: undefined once pruned.
ElemNode(p) == IF Broken(p, dead) THEN UndefinedNode ELSE Value(p)

\* predicate(this.getTypedNode(index), index), the callback of filter().
FilterKeeps_Rejected(pred, p) == ElemNode(p) \notin pred.sat
FilterKeeps(pred, p) == ElemNode(p) \in pred.sat

\* Array.prototype.filter
RECURSIVE filter(_, _, _)
filter(paths, pred, i) ==
  IF i > Len(paths) THEN <<>>
  ELSE (IF FilterKeeps(pred, paths[i]) THEN <<paths[i]>> ELSE <<>>)
         \o filter(paths, pred, i + 1)

\* JsNodeList.filter(predicate).  The wrapper of an element of a list
\* without a type is made by JsNode.fromPath, which fails on a pruned path.
Filter(which, pred) ==
  /\ edits < MaxListEdits
  /\ pred.given
  /\ Len(Sel(which).paths) > 0
  /\ IF Sel(which).type = ""
        /\ \E j \in 1..Len(Sel(which).paths) : Broken(Sel(which).paths[j], dead)
     THEN /\ last' = [NoCall EXCEPT !.op = "filter", !.which = which,
                        !.pred = pred, !.threw = TRUE]
          /\ UNCHANGED <<list, other>>
     ELSE /\ Assigned(which, filter(Sel(which).paths, pred, 1))
          /\ last' = [NoCall EXCEPT !.op = "filter", !.which = which,
                        !.pred = pred, !.same = TRUE,
                        !.paths = filter(Sel(which).paths, pred, 1)]
  /\ edits' = edits + 1
  /\ UNCHANGED <<kids, ws, dead, steps>>
  /\ UNCHANGED <<registeredTypes, registrations>>

\* JsNodeList.push(node)
Push(which, i) ==
  /\ edits < MaxListEdits
  /\ i \in 1..Len(ws)
  /\ IsWrapper(ws[i])
  /\ Len(Sel(which).paths) < MaxList
  /\ Mutated(which, Append(Sel(which).paths, ws[i].path))
  /\ last' = [NoCall EXCEPT !.op = "push", !.which = which, !.src = ws[i],
                !.idx = i, !.same = TRUE]
  /\ edits' = edits + 1
  /\ UNCHANGED <<kids, ws, dead, steps>>
  /\ UNCHANGED <<registeredTypes, registrations>>

\* this._paths.slice(0) in copy(): a new array, not the one copied.
SliceShares_Alias(paths) == TRUE
SliceShares(paths) == FALSE

\* JsNodeList.copy(): the caller copies list and holds the copy as other.
Copy ==
  /\ Len(list.paths) > 0
  /\ other' = [type |-> list.type, paths |-> list.paths,
               shared |-> SliceShares(list.paths)]
  /\ last' = [NoCall EXCEPT !.op = "copy", !.which = 1,
                !.out = [type |-> list.type, paths |-> list.paths]]
  /\ UNCHANGED <<kids, ws, list, dead, steps, edits>>
  /\ UNCHANGED <<registeredTypes, registrations>>

\* if (this._type !== list._type) throw, in concat().
ConcatThrows_Never(a, b) == FALSE
ConcatThrows(a, b) == a.type # b.type

\* JsNodeList.concat(list): the local 'type' handed to fromPaths is never
\* assigned, so the new list has no type.
concat(a, b) ==
  IF ConcatThrows(a, b)
  THEN [out |-> NoList, threw |-> TRUE,
        err |-> "Can not concatenate lists of different type"]
  ELSE [out |-> [type |-> "", paths |-> a.paths \o b.paths],
        threw |-> FALSE, err |-> ""]

Concat(which) ==
  /\ Len(list.paths) > 0 /\ Len(other.paths) > 0
  /\ last' = [NoCall EXCEPT !.op = "concat", !.which = which,
                !.out = concat(Sel(which), Arg(which)).out,
                !.threw = concat(Sel(which), Arg(which)).threw,
                !.err = concat(Sel(which), Arg(which)).err]
  /\ UNCHANGED <<kids, ws, list, other, dead, steps, edits>>
  /\ UNCHANGED <<registeredTypes, registrations>>

\* this._paths.forEach(path => path.prune()): the elements are pruned one
\* after the other; prune() fails on a path without a parent and on one
\* whose value its parent no longer holds, and the loop ends there.
RECURSIVE RemoveAllLoop(_, _, _, _)
RemoveAllLoop(paths, i, k, gone) ==
  IF i > Len(paths) THEN [kids |-> k, dead |-> gone, threw |-> FALSE]
  ELSE IF InParent(k, paths[i])
  THEN RemoveAllLoop(paths, i + 1, Prune(k, paths[i]), gone \cup {paths[i]})
  ELSE [kids |-> k, dead |-> gone, threw |-> TRUE]

\* JsNodeList.removeAll()
RemoveAll(which) ==
  /\ edits < MaxEdits
  /\ Len(Sel(which).paths) > 0
  /\ kids' = RemoveAllLoop(Sel(which).paths, 1, kids, dead).kids
  /\ dead' = RemoveAllLoop(Sel(which).paths, 1, kids, dead).dead
  /\ last' = [NoCall EXCEPT !.op = "removeAll", !.which = which, !.same = TRUE,
                !.paths = Sel(which).paths,
                !.threw = RemoveAllLoop(Sel(which).paths, 1, kids, dead).threw]
  /\ edits' = edits + 1
  /\ UNCHANGED <<ws, list, other, steps>>
  /\ UNCHANGED <<registeredTypes, registrations>>

\* ------------------------------------------------------------- rendering
\* JsNode.format(): the source text of the subtree, written as the raw nodes
\* in the order the printer emits them.
RECURSIVE format(_, _)
RECURSIVE formatAll(_, _, _)
format(k, n) == <<n>> \o formatAll(k, k[n], 1)
formatAll(k, seq, i) ==
  IF i > Len(seq) THEN <<>> ELSE format(k, seq[i]) \o formatAll(k, seq, i + 1)

\* ------------------------------------------------------------ navigation
\* while (currentPath && !predicate(fromPath(currentPath))) currentPath = parent
RECURSIVE AscendLoop(_, _)
AscendLoop(p, pred) ==
  IF IsPath(p) /\ ~(Value(p) \in pred.sat)
  THEN AscendLoop(ParentPath(p), pred)
  ELSE p

\* JsNode.ascend(predicate)
ascend(w, pred) ==
  IF HasParentPath(w.path)
  THEN LET currentPath == IF pred.given
                          THEN AscendLoop(ParentPath(w.path), pred)
                          ELSE ParentPath(w.path)
       IN IF IsPath(currentPath) THEN FromPath(currentPath) ELSE NoWrapper
  ELSE NoWrapper

\* node => this.checkType(node, type), as a predicate on raw nodes.
TypePredicate(type) ==
  [given |-> TRUE,
   sat |-> {n \in Nodes : checkType([cls |-> TypeOf(n), path |-> NoPath], type)}]

\* JsNode.findParentOfType(type) and findClosestParentOfType(type): the
\* match already is an instance of type, so castTo returns it.
findParentOfType(w, type) == ascend(w, TypePredicate(type))

\* while (path.parent) path = path.parent
RECURSIVE RootLoop(_)
RootLoop(p) == IF HasParentPath(p) THEN RootLoop(ParentPath(p)) ELSE p

\* JsNode.getRoot()
getRoot(w) ==
  IF HasParentPath(w.path) THEN FromPath(RootLoop(w.path)) ELSE NoWrapper

Ascend(i, pred) ==
  /\ Live(i)
  /\ last' = [NoCall EXCEPT !.op = "ascend", !.src = ws[i], !.idx = i,
                !.pred = pred, !.res = ascend(ws[i], pred)]
  /\ UNCHANGED <<kids, ws, list, dead, steps, edits>>
  /\ UNCHANGED <<registeredTypes, registrations, other>>

FindParentOfType(i, type) ==
  /\ Live(i)
  /\ last' = [NoCall EXCEPT !.op = "findParentOfType", !.src = ws[i],
                !.idx = i, !.types = {type},
                !.res = findParentOfType(ws[i], type)]
  /\ UNCHANGED <<kids, ws, list, dead, steps, edits>>
  /\ UNCHANGED <<registeredTypes, registrations, other>>

FindClosestParentOfType(i, type) ==
  /\ Live(i)
  /\ last' = [NoCall EXCEPT !.op = "findClosestParentOfType", !.src = ws[i],
                !.idx = i, !.types = {type},
                !.res = findParentOfType(ws[i], type)]
  /\ UNCHANGED <<kids, ws, list, dead, steps, edits>>
  /\ UNCHANGED <<registeredTypes, registrations, other>>

GetRoot(i) ==
  /\ Live(i)
  /\ last' = [NoCall EXCEPT !.op = "getRoot", !.src = ws[i], !.idx = i,
                !.res = getRoot(ws[i])]
  /\ UNCHANGED <<kids, ws, list, dead, steps, edits>>
  /\ UNCHANGED <<registeredTypes, registrations, other>>

\* --------------------------------------------------------------- editing
\* toAstNode(node): a wrapper is unwrapped, a raw node is taken as it is.
toAstNode(arg) == IF arg.wrapped THEN NodeOf(arg.w) ELSE arg.node

\* What the caller can pass to replace(): a freshly built raw node, or a
\* wrapper around one.
RawArg(n) == [wrapped |-> FALSE, node |-> n, w |-> NoWrapper]
WrappedArg(n) == [wrapped |-> TRUE, node |-> 0, w |-> FromPath(RootPath(0, n))]
Fresh(n) ==
  /\ \A m \in Nodes : IndexOf(kids[m], n) = 0
  /\ \A j \in 1..Len(ws) : IndexOf(ws[j].path.chain, n) = 0

\* if (!this._path.parent) in replace(): the wrapper re-roots itself.
ReplaceReroots_Always(w) == TRUE
ReplaceReroots_Never(w) == FALSE
ReplaceReroots(w) == ~HasParentPath(w.path)

\* if (this._path.parent) in remove(): only a wrapper with a parent prunes.
RemovePrunes_Always(w) == TRUE
RemovePrunes(w) == HasParentPath(w.path)

\* JsNode.replace(node)
Replace(i, arg) ==
  /\ edits < MaxEdits
  /\ Live(i)
  /\ LET w == ws[i]
         astNode == toAstNode(arg)
         call == [NoCall EXCEPT !.op = "replace", !.src = w, !.idx = i,
                    !.arg = astNode, !.wrapped = arg.wrapped]
     IN IF ReplaceReroots(w)
        THEN /\ ws' = [ws EXCEPT ![i].path = RootPath(0 - (edits + 1), astNode)]
             /\ last' = call
             /\ UNCHANGED <<kids, list, other, dead>>
        ELSE IF InParent(kids, w.path)
        THEN /\ kids' = PathReplace(kids, w.path, astNode)
             /\ ws' = [j \in 1..Len(ws) |->
                         [ws[j] EXCEPT !.path = Rebind(@, w.path, astNode)]]
             /\ list' = [list EXCEPT !.paths =
                           [j \in 1..Len(list.paths) |->
                              Rebind(list.paths[j], w.path, astNode)]]
             /\ other' = [other EXCEPT !.paths =
                            [j \in 1..Len(other.paths) |->
                               Rebind(other.paths[j], w.path, astNode)]]
             /\ dead' = {Rebind(d, w.path, astNode) : d \in dead}
             /\ last' = call
        ELSE /\ last' = [call EXCEPT !.threw = TRUE]
             /\ UNCHANGED <<kids, ws, list, other, dead>>
  /\ edits' = edits + 1
  /\ UNCHANGED steps
  /\ UNCHANGED <<registeredTypes, registrations>>

\* JsNode.remove()
Remove(i) ==
  /\ edits < MaxEdits
  /\ Live(i)
  /\ LET w == ws[i]
         call == [NoCall EXCEPT !.op = "remove", !.src = w, !.idx = i]
     IN IF ~RemovePrunes(w)
        THEN /\ last' = call
             /\ UNCHANGED <<kids, dead>>
        ELSE IF InParent(kids, w.path)
        THEN /\ kids' = Prune(kids, w.path)
             /\ dead' = dead \cup {w.path}
             /\ last' = call
        ELSE /\ last' = [call EXCEPT !.threw = TRUE]
             /\ UNCHANGED <<kids, dead>>
  /\ edits' = edits + 1
  /\ UNCHANGED <<ws, list, steps>>
  /\ UNCHANGED <<registeredTypes, registrations, other>>

\* JsNode.removeChildren(predicate)
RemoveChildren(i, pred) ==
  /\ edits < MaxEdits
  /\ Live(i)
  /\ LET w == ws[i]
         st == visit(0 - (edits + 1), NodeOf(w),
                     [op |-> "removeChildren", self |-> NodeOf(w),
                      pred |-> pred], kids)
     IN /\ kids' = st.kids
        /\ last' = [NoCall EXCEPT !.op = "removeChildren", !.src = w,
                      !.idx = i, !.pred = pred, !.visited = st.visited,
                      !.evaluated = st.evaluated]
  /\ edits' = edits + 1
  /\ UNCHANGED <<ws, list, dead, steps>>
  /\ UNCHANGED <<registeredTypes, registrations, other>>

\* JsNode.removeDescendants(predicate)
RemoveDescendants(i, pred) ==
  /\ edits < MaxEdits
  /\ Live(i)
  /\ pred.given
  /\ LET w == ws[i]
         st == visit(0 - (edits + 1), NodeOf(w),
                     [op |-> "removeDescendants", self |-> NodeOf(w),
                      pred |-> pred], kids)
     IN /\ kids' = st.kids
        /\ last' = [NoCall EXCEPT !.op = "removeDescendants", !.src = w,
                      !.idx = i, !.pred = pred, !.visited = st.visited,
                      !.evaluated = st.evaluated]
  /\ edits' = edits + 1
  /\ UNCHANGED <<ws, list, dead, steps>>
  /\ UNCHANGED <<registeredTypes, registrations, other>>

\* -------------------------------------------------------------- building
\* JavaScript values handed to build() or made by it.  k is the kind of the
\* value; v its payload (the number 0, false and the empty string have
\* payload 0; a raw node and a wrapper carry the raw node); cls the class of
\* a wrapper; elems the elements of an array.
Val(k, v, cls) == [k |-> k, v |-> v, cls |-> cls, elems |-> <<>>]
Undefined == Val("undefined", 0, "")
Null == Val("null", 0, "")
Bool(b) == Val("boolean", b, "")
Num(n) == Val("number", n, "")
Str(x) == Val("string", x, "")
RawNode(n) == Val("node", n, "")
Wrapped(cls, n) == Val("jsnode", n, cls)
Array(seq) == [k |-> "array", v |-> 0, cls |-> "", elems |-> seq]
\* JavaScript truthiness, as tested by && and ||.
Truthy(x) ==
  ~(x.k \in {"undefined", "null"}
    \/ (x.k \in {"boolean", "number", "string"} /\ x.v = 0))

\* flatten(arr): a new array with nested arrays spliced in.
RECURSIVE flatten(_)
flatten(arr) ==
  IF arr = <<>> THEN <<>>
  ELSE (IF Head(arr).k = "array" THEN flatten(Head(arr).elems) ELSE <<Head(arr)>>)
         \o flatten(Tail(arr))

\* The children array build() works on; ix remembers the place each child
\* had in it before anything was spliced out.
Pool(flat) == [j \in 1..Len(flat) |-> [ix |-> j, val |-> flat[j]]]

\* A JsNodeMetaProp.
NoTypes == [given |-> FALSE, types |-> {}]
TypesOf(ts) == [given |-> TRUE, types |-> ts]
NoDefault == [kind |-> "none", val |-> Undefined]
DefaultValue(x) == [kind |-> "value", val |-> x]
DefaultFn(x) == [kind |-> "function", val |-> x]
MetaProp(fp, fc, fcs, cv, df) ==
  [fromProp |-> fp, fromChild |-> fc, fromChildren |-> fcs,
   convert |-> cv, default |-> df]

\* The fromProp and convert functions a specification can declare.
ApplyFromProp(fp, x) == x
ApplyConvert(cv, x) ==
  RawNode(IF x.k = "string" THEN 10 + x.v
          ELSE IF x.k = "number" THEN 20 + x.v ELSE 30)

\* Object.keys(meta): the argument names in the order they are declared.
MetaKeys_Reversed(meta) ==
  [j \in 1..Len(meta) |-> meta[Len(meta) + 1 - j].name]
MetaKeys(meta) == [j \in 1..Len(meta) |-> meta[j].name]
\* meta[metaPropName]
MetaAt(meta, name) ==
  meta[CHOOSE j \in 1..Len(meta) : meta[j].name = name].prop

\* buildConvert(v, metaProp)
buildConvert(x, mp) ==
  IF x.k = "jsnode" THEN RawNode(x.v)
  ELSE IF mp.convert # "none" THEN ApplyConvert(mp.convert, x)
  ELSE x

\* buildCheckType(child, type): a type given as a string accepts strings,
\* a class accepts its instances (every wrapper is an instance of JsNode).
buildCheckType(child, type) ==
  IF type = "string" THEN child.k = "string"
  ELSE child.k = "jsnode" /\ (type = "JsNode" \/ child.cls = type)
SomeType(child, types) == \E type \in types : buildCheckType(child, type)

\* buildNodeFromProp(prop, metaProp)
buildNodeFromProp(prop, mp) ==
  IF Truthy(prop) /\ mp.fromProp # "none"
  THEN buildConvert(ApplyFromProp(mp.fromProp, prop), mp)
  ELSE Undefined

\* buildNodeFromChild(children, metaProp): the first child that passes the
\* type check is spliced out and converted.
buildNodeFromChild(children, mp) ==
  LET hits == {j \in 1..Len(children) :
                 SomeType(children[j].val, mp.fromChild.types)}
  IN IF mp.fromChild.given /\ hits # {}
     THEN LET j == CHOOSE h \in hits : \A g \in hits : h <= g
          IN [node |-> buildConvert(children[j].val, mp),
              children |-> RemoveAt(children, j),
              took |-> <<children[j].ix>>]
     ELSE [node |-> Undefined, children |-> children, took |-> <<>>]

\* The loop of buildNodeFromChildren whose index moves on after a splice.
RECURSIVE ChildrenLoop_SkipsNext(_, _, _, _, _)
ChildrenLoop_SkipsNext(children, mp, i, matches, took) ==
  IF i > Len(children)
  THEN [node |-> Array(matches), children |-> children, took |-> took]
  ELSE IF SomeType(children[i].val, mp.fromChildren.types)
  THEN ChildrenLoop_SkipsNext(RemoveAt(children, i), mp, i + 1,
                    Append(matches, buildConvert(children[i].val, mp)),
                    Append(took, children[i].ix))
  ELSE ChildrenLoop_SkipsNext(children, mp, i + 1, matches, took)

\* The loop of buildNodeFromChildren: children.splice(i--, 1) keeps the
\* index on the element that moved into the freed slot.
RECURSIVE ChildrenLoop(_, _, _, _, _)
ChildrenLoop(children, mp, i, matches, took) ==
  IF i > Len(children)
  THEN [node |-> Array(matches), children |-> children, took |-> took]
  ELSE IF SomeType(children[i].val, mp.fromChildren.types)
  THEN ChildrenLoop(RemoveAt(children, i), mp, i,
                    Append(matches, buildConvert(children[i].val, mp)),
                    Append(took, children[i].ix))
  ELSE ChildrenLoop(children, mp, i + 1, matches, took)

\* buildNodeFromChildren(children, metaProp)
buildNodeFromChildren(children, mp) ==
  IF mp.fromChildren.given
  THEN ChildrenLoop(children, mp, 1, <<>>, <<>>)
  ELSE [node |-> Undefined, children |-> children, took |-> <<>>]

\* buildNodeFromDefault(metaProp): a default that is a function is called.
buildNodeFromDefault(mp) ==
  IF mp.default.kind = "none" THEN Undefined
  ELSE mp.default.val

\* One round of the map in buildNodes:
\*   fromProp(..) || fromChild(..) || fromChildren(..) || fromDefault(..)
\* rule names the operand that gave the value; took lists the children
\* spliced out on the way, used those that are part of the value (both, and
\* before, the children in the pool when the round starts, by their ix).
BuildNodeFromDefaultElse(b, c, mp) ==
  IF Truthy(c.node)
  THEN [node |-> c.node, children |-> c.children, rule |-> "children",
        took |-> b.took \o c.took, used |-> c.took]
  ELSE [node |-> buildNodeFromDefault(mp), children |-> c.children,
        rule |-> "default", took |-> b.took \o c.took, used |-> <<>>]

BuildNodeFromChildrenElse(b, mp) ==
  IF Truthy(b.node)
  THEN [node |-> b.node, children |-> b.children, rule |-> "child",
        took |-> b.took, used |-> b.took]
  ELSE BuildNodeFromDefaultElse(b, buildNodeFromChildren(b.children, mp), mp)

BuildNodeFromChildElse(a, children, mp) ==
  IF Truthy(a)
  THEN [node |-> a, children |-> children, rule |-> "prop",
        took |-> <<>>, used |-> <<>>]
  ELSE BuildNodeFromChildrenElse(buildNodeFromChild(children, mp), mp)

BuildNode(prop, children, mp) ==
  BuildNodeFromChildElse(buildNodeFromProp(prop, mp), children, mp)

\* buildNodes(props, children, meta): the arguments in the order of
\* Object.keys(meta); the first argument left undefined throws.
RECURSIVE BuildNodesLoop(_, _, _, _, _, _)
RECURSIVE BuildNodesStep(_, _, _, _, _, _, _)
BuildNodesLoop(props, meta, keys, i, children, binds) ==
  IF i > Len(keys)
  THEN [missing |-> "", children |-> children, binds |-> binds]
  ELSE BuildNodesStep(props, meta, keys, i, children, binds,
                      BuildNode(props[keys[i]], children, MetaAt(meta, keys[i])))

\* The rest of a round: r is what the || chain gave for argument keys[i].
BuildNodesStep(props, meta, keys, i, children, binds, r) ==
  LET bind == [name |-> keys[i], rule |-> r.rule, node |-> r.node,
               took |-> r.took, used |-> r.used,
               before |-> [j \in 1..Len(children) |-> children[j].ix]]
  IN IF r.node.k = "undefined"
     THEN [missing |-> keys[i], children |-> r.children,
           binds |-> Append(binds, bind)]
     ELSE BuildNodesLoop(props, meta, keys, i + 1, r.children,
                         Append(binds, bind))

buildNodes(props, children, meta) ==
  BuildNodesLoop(props, meta, MetaKeys(meta), 1, children, <<>>)

\* if (children.length > 0) in build()
LeftoverThrows_Never(children) == FALSE
LeftoverThrows(children) == Len(children) > 0

\* children = flatten(children) in build(): flatten() fills a new array, so
\* the array buildNodes takes children out of is never the caller's.
FlattenCopies_OnlyNested(children) ==
  \E j \in 1..Len(children) : children[j].k = "array"
FlattenCopies(children) == TRUE

\* What the builder function does with its arguments.
BuilderOutcomes == {"node", "throws", "undefined", "null"}

\* The record of a build() call that did not get past buildNodes.
NoBuild ==
  [props |-> <<>>, children |-> <<>>, meta |-> <<>>, out |-> "",
   flat |-> <<>>, binds |-> <<>>, leftover |-> <<>>, calls |-> 0,
   args |-> <<>>, error |-> "none", errName |-> "", errClass |-> "",
   result |-> NullNode, caller |-> <<>>]

\* build() from the invocation of buildNodes on: flat is the flattened
\* children array, r what buildNodes returned or where it threw.
BuildFrom(i, props, children, meta, out, n, flat, r) ==
  LET w == ws[i]
      b0 == [NoBuild EXCEPT !.props = props, !.children = children,
               !.meta = meta, !.flat = flat,
               !.binds = r.binds, !.errClass = w.cls,
               !.leftover = [j \in 1..Len(r.children) |-> r.children[j].val],
               !.caller = IF FlattenCopies(children) THEN children
                          ELSE [j \in 1..Len(r.children) |-> r.children[j].val]]
      b1 == [b0 EXCEPT !.calls = 1, !.out = out,
               !.args = [j \in 1..Len(r.binds) |->
                           IF r.binds[j].node.k = "jsnode"
                           THEN RawNode(r.binds[j].node.v)
                           ELSE r.binds[j].node]]
      made == IF out = "node" THEN n
              ELSE IF out = "null" THEN NullNode ELSE UndefinedNode
      w2 == [w EXCEPT !.path = RootPath(0 - (edits + 1), made)]
      call == [NoCall EXCEPT !.op = "build", !.src = w, !.idx = i]
      error == IF r.missing # "" THEN "MissingBinding"
               ELSE IF LeftoverThrows(r.children) THEN "UnconsumedChildren"
               ELSE IF out = "throws" THEN "BuilderFailure"
               ELSE IF NodeOf(w2) = UndefinedNode THEN "EmptyBuilderResult"
               ELSE "none"
  IN /\ ws' = IF error \in {"none", "EmptyBuilderResult"}
              THEN [ws EXCEPT ![i] = w2] ELSE ws
     /\ last' =
          [call EXCEPT
             !.threw = (error # "none"),
             !.build =
               IF error \in {"MissingBinding", "UnconsumedChildren"}
               THEN [b0 EXCEPT !.error = error, !.errName = r.missing]
               ELSE IF error = "BuilderFailure"
               THEN [b1 EXCEPT !.error = error]
               ELSE [b1 EXCEPT !.error = error, !.result = made]]

\* JsNode.build(props, children, meta, builder)
Build(i, props, children, meta, out, n) ==
  /\ edits < MaxEdits
  /\ i \in 1..Len(ws)
  /\ BuildFrom(i, props, children, meta, out, n, flatten(children),
               buildNodes(props, Pool(flatten(children)), meta))
  /\ edits' = edits + 1
  /\ UNCHANGED <<kids, list, dead, steps>>
  /\ UNCHANGED <<registeredTypes, registrations, other>>

\* The specifications, properties and children a run hands to build().
BuildNames == {"a", "b"}
MetaProps ==
  {MetaProp("id", NoTypes, NoTypes, "none", NoDefault),
   MetaProp("id", NoTypes, NoTypes, "identifier", DefaultValue(Num(0))),
   MetaProp("none", TypesOf({"string"}), NoTypes, "none", DefaultFn(Str(3))),
   MetaProp("none", TypesOf({"string"}), NoTypes, "identifier", NoDefault),
   MetaProp("id", TypesOf({"Identifier"}), NoTypes, "none", NoDefault),
   MetaProp("none", NoTypes, TypesOf({"Identifier"}), "none", NoDefault),
   MetaProp("none", NoTypes, TypesOf({"string", "Literal"}), "identifier",
            NoDefault),
   MetaProp("none", TypesOf({"Identifier"}), TypesOf({"JsNode"}), "none",
            NoDefault)}
Metas ==
  {meta \in UNION {[1..len -> [name : BuildNames, prop : MetaProps]] :
                     len \in 1..MaxArgs} :
     \A j, h \in 1..Len(meta) : j # h => meta[j].name # meta[h].name}
PropValues == {Undefined, Num(0), Str(1), Wrapped("Identifier", 2)}
\* props holds values only under names the specification declares.
PropSets(meta) ==
  {props \in [BuildNames -> PropValues] :
     \A name \in BuildNames :
       (\A j \in 1..Len(meta) : meta[j].name # name) => props[name] = Undefined}
ChildValues ==
  {Str(0), Str(1), Wrapped("Identifier", 2),
   Array(<<Wrapped("Literal", 3), Str(1)>>)}
ChildLists == UNION {[1..len -> ChildValues] : len \in 0..MaxKids}

\* --------------------------------------------------------------- casting
\* A target type of a cast: a class, with or without a static check().  The
\* check of a complex type is the set of raw nodes whose wrapper it accepts.
CastType(name, check) == [name |-> name, check |-> check]
\* this instanceof type: the class of the wrapper is the type or extends it
\* (Component extends Identifier; every class extends JsNode).
InstanceOf(w, type) ==
  \/ type.name = "JsNode"
  \/ w.cls = type.name
  \/ (w.cls = "Component" /\ type.name = "Identifier")

\* if (this instanceof type) return this, the first statement of castTo().
CastReturnsThis_Never(w, type) == FALSE
CastReturnsThis(w, type) == InstanceOf(w, type)

\* if (!type.check) throw, in castTo().
CastThrows_Never(w, type) == FALSE
CastThrows_Unqualified(w, type) ==
  (~type.check.given) \/ NodeOf(w) \notin type.check.sat
CastThrows(w, type) == ~type.check.given

\* if (!type.check) throw, the first statement of canCastTo().
CanCastThrows_InstanceFirst(w, type) ==
  (~type.check.given) /\ ~InstanceOf(w, type)
CanCastThrows(w, type) == ~type.check.given

\* JsNode.castTo(type): the wrapper itself, an error, or a new wrapper of the
\* type over the same path.
castTo(w, type) ==
  IF CastReturnsThis(w, type)
  THEN [res |-> w, same |-> TRUE, threw |-> FALSE]
  ELSE IF CastThrows(w, type)
  THEN [res |-> NoWrapper, same |-> FALSE, threw |-> TRUE]
  ELSE [res |-> [cls |-> type.name, path |-> w.path],
        same |-> FALSE, threw |-> FALSE]

\* JsNode.canCastTo(type)
canCastTo(w, type) ==
  IF CanCastThrows(w, type)
  THEN [ok |-> FALSE, threw |-> TRUE]
  ELSE [ok |-> InstanceOf(w, type) \/ NodeOf(w) \in type.check.sat,
        threw |-> FALSE]

\* The caller casts a wrapper and keeps a new wrapper it is handed.
CastTo(i, type) ==
  /\ Live(i)
  /\ castTo(ws[i], type).threw \/ castTo(ws[i], type).same
       \/ Len(ws) <= MaxWrap
  /\ ws' = IF castTo(ws[i], type).threw \/ castTo(ws[i], type).same
           THEN ws ELSE Append(ws, castTo(ws[i], type).res)
  /\ last' = [NoCall EXCEPT !.op = "castTo", !.src = ws[i], !.idx = i,
                !.name = type.name, !.pred = type.check,
                !.res = castTo(ws[i], type).res,
                !.same = castTo(ws[i], type).same,
                !.threw = castTo(ws[i], type).threw]
  /\ UNCHANGED <<kids, list, dead, steps, edits>>
  /\ UNCHANGED <<registeredTypes, registrations, other>>

CanCastTo(i, type) ==
  /\ Live(i)
  /\ last' = [NoCall EXCEPT !.op = "canCastTo", !.src = ws[i], !.idx = i,
                !.name = type.name, !.pred = type.check,
                !.ok = canCastTo(ws[i], type).ok,
                !.threw = canCastTo(ws[i], type).threw]
  /\ UNCHANGED <<kids, ws, list, dead, steps, edits>>
  /\ UNCHANGED <<registeredTypes, registrations, other>>

\* The types a run casts to: the node classes and JsNode (no check), and
\* two complex types.
CastTypes ==
  {CastType(name, NoPred) : name \in {"Identifier", "Literal", "JsNode"}}
    \cup {CastType("Expression", [given |-> TRUE, sat |-> TreeNodes \ {1}]),
          CastType("Component", [given |-> TRUE, sat |-> {2}])}

\* ------------------------------------------------------------- registry
\* JsNode.registerType()(type)
RegisterType(type) ==
  /\ Len(registrations) < MaxRegs
  /\ registeredTypes' = Registered(registeredTypes, type)
  /\ registrations' = Append(registrations, type)
  /\ last' = [NoCall EXCEPT !.op = "registerType", !.name = type.name,
                !.made = [cls |-> type.name, ver |-> type.ver]]
  /\ UNCHANGED <<kids, ws, list, other, dead, steps, edits>>

\* JsNode.create(typeName)
Create(typeName) ==
  /\ last' = [NoCall EXCEPT !.op = "create", !.name = typeName,
                !.made = create(typeName),
                !.res = [cls |-> create(typeName).cls, path |-> NoPath]]
  /\ UNCHANGED <<kids, ws, list, other, dead, steps, edits,
                 registeredTypes, registrations>>

\* The predicates and type lists a run draws its arguments from.
TypePreds ==
  {NoPred} \cup {[given |-> TRUE, sat |-> TreeNodes \ {n}] : n \in {2, 3}}
TypeLists == {{"Identifier", "Literal"}, {"Literal", "File"}}
AllTypes == Types \cup {"File"}
EditPreds == {NoPred} \cup {[given |-> TRUE, sat |-> {n}] : n \in TreeNodes}

Next ==
  \/ \E i \in 1..Len(ws), pred \in Preds : Descend(i, pred)
  \/ \E i \in 1..Len(ws), pred \in Preds, b \in BOOLEAN : FindChildren(i, pred, b)
  \/ \E i \in 1..Len(ws), t \in Types, pred \in TypePreds, b \in BOOLEAN :
        FindFirstChildOfType(i, t, pred, b)
  \/ \E i \in 1..Len(ws), t \in Types, pred \in TypePreds, b \in BOOLEAN :
        FindChildrenOfType(i, t, pred, b)
  \/ \E i \in 1..Len(ws), ts \in TypeLists, pred \in TypePreds, b \in BOOLEAN :
        FindChildrenOfTypes(i, ts, pred, b)
  \/ \E i \in 1..Len(ws) : Children(i)
  \/ \E index \in 0..(Len(list.paths) - 1) : At(index)

Spec == Init /\ [][Next]_vars

\* Searching for a node and walking up from the wrappers found.
NextNav ==
  \/ \E i \in 1..Len(ws), t \in Types, b \in BOOLEAN :
        FindFirstChildOfType(i, t, NoPred, b)
  \/ \E i \in 1..Len(ws), pred \in EditPreds : Descend(i, pred)
  \/ \E i \in 1..Len(ws), b \in BOOLEAN : FindChildren(i, NoPred, b)
  \/ \E i \in 1..Len(ws) : Children(i)
  \/ \E index \in 0..(Len(list.paths) - 1) : At(index)
  \/ \E i \in 1..Len(ws) : GetRoot(i)
  \/ \E i \in 1..Len(ws), t \in AllTypes : FindParentOfType(i, t)
  \/ \E i \in 1..Len(ws), t \in AllTypes : FindClosestParentOfType(i, t)
  \/ \E i \in 1..Len(ws), pred \in Preds : Ascend(i, pred)

SpecNav == Init /\ [][NextNav]_vars

\* Searching for a node and editing the tree through the wrappers found.
NextEdit ==
  \/ \E i \in 1..Len(ws), t \in Types, b \in BOOLEAN :
        FindFirstChildOfType(i, t, NoPred, b)
  \/ \E i \in 1..Len(ws), pred \in EditPreds : Descend(i, pred)
  \/ \E i \in 1..Len(ws) : Children(i)
  \/ \E index \in 0..(Len(list.paths) - 1) : At(index)
  \/ \E i \in 1..Len(ws), n \in NewNodes :
        Fresh(n) /\ (Replace(i, RawArg(n)) \/ Replace(i, WrappedArg(n)))
  \/ \E i \in 1..Len(ws) : Remove(i)
  \/ \E i \in 1..Len(ws), pred \in Preds : RemoveChildren(i, pred)
  \/ \E i \in 1..Len(ws), pred \in Preds : RemoveDescendants(i, pred)
  \/ \E i \in 1..Len(ws) : GetRoot(i)

SpecEdit == Init /\ [][NextEdit]_vars

\* Building a node from properties and children, on a wrapper that has a
\* node and on one that was just constructed.
InitBuild ==
  /\ registeredTypes = LoadedTypes
  /\ registrations = LoadedRegistrations
  /\ kids = KidsOf([j \in 2..MaxNode |-> 1])
  /\ ws \in {<<FromPath(RootPath(0, 1))>>,
              <<[cls |-> "Identifier", path |-> NoPath]>>}
  /\ list = NoList
  /\ other = NoOther
  /\ dead = {}
  /\ steps = 0
  /\ edits = 0
  /\ last = NoCall

NextBuild ==
  edits < MaxEdits /\
  \E i \in 1..Len(ws), meta \in Metas, children \in ChildLists,
     out \in BuilderOutcomes, n \in NewNodes :
    \E props \in PropSets(meta) :
    Build(i, props, children, meta, out, n)

SpecBuild == InitBuild /\ [][NextBuild]_vars

\* The predicates handed to filter(): one that keeps a single node, one
\* that drops a single node.
ListPreds ==
  {[given |-> TRUE, sat |-> {n}] : n \in TreeNodes}
    \cup {[given |-> TRUE, sat |-> TreeNodes \ {n}] : n \in TreeNodes}

\* Lists: filling one by a search, reading, changing and combining them.
NextList ==
  \/ \E i \in 1..Len(ws), t \in Types, b \in BOOLEAN :
        FindChildrenOfType(i, t, NoPred, b)
  \/ \E i \in 1..Len(ws), b \in BOOLEAN : FindChildren(i, NoPred, b)
  \/ \E index \in 0..MaxNode : At(index)
  \/ First
  \/ Last
  \/ \E which \in 1..2, pred \in ListPreds : Filter(which, pred)
  \/ \E which \in 1..2, i \in 1..Len(ws) : Push(which, i)
  \/ Copy
  \/ \E which \in 1..2 : Concat(which)
  \/ \E which \in 1..2 : RemoveAll(which)

SpecList == Init /\ [][NextList]_vars

\* Searching for a node and casting the wrappers found.
NextCast ==
  \/ \E i \in 1..Len(ws), t \in Types, b \in BOOLEAN :
        FindFirstChildOfType(i, t, NoPred, b)
  \/ \E i \in 1..Len(ws), type \in CastTypes : CastTo(i, type)
  \/ \E i \in 1..Len(ws), type \in CastTypes : CanCastTo(i, type)

SpecCast == Init /\ [][NextCast]_vars

\* Registering node classes and creating wrappers by type name, from the
\* empty registry the JsNode class starts with.
InitRegistry ==
  /\ registeredTypes = [name \in TypeNames |-> NoType]
  /\ registrations = <<>>
  /\ kids = KidsOf([j \in 2..MaxNode |-> 1])
  /\ ws = <<>>
  /\ list = NoList
  /\ other = NoOther
  /\ dead = {}
  /\ steps = 0
  /\ edits = 0
  /\ last = NoCall

NextRegistry ==
  \/ \E type \in Classes : RegisterType(type)
  \/ \E typeName \in TypeNames : Create(typeName)

SpecRegistry == InitRegistry /\ [][NextRegistry]_vars

\* ------------------------------------------------------------ properties
\* The tree as a relation, for stating what the calls should return.
IsChild(k, a, b) == IndexOf(k[a], b) > 0

RECURSIVE Closure(_, _)
Closure(k, S) ==
  LET T == S \cup {b \in Nodes : \E a \in S : IsChild(k, a, b)}
  IN IF T = S THEN S ELSE Closure(k, T)

\* The nodes of the subtree below and including n; those strictly below n.
Subtree(k, n) == Closure(k, {n})
StrictDesc(k, n) == Subtree(k, n) \ {n}

\* Document order: a comes before b when a is an ancestor of b, or when a
\* lies in an earlier child subtree of their lowest common ancestor.
Before(k, a, b) ==
  /\ a # b
  /\ \/ b \in Subtree(k, a)
     \/ \E m \in Nodes : \E i, j \in 1..Len(k[m]) :
          i < j /\ a \in Subtree(k, k[m][i]) /\ b \in Subtree(k, k[m][j])

FindOps == {"findChildren", "findChildrenOfType", "findChildrenOfTypes"}

\* The nodes a findChildren* call is asked for.
Wanted(call) ==
  LET s == NodeOf(call.src)
      scope == IF call.includeSelf THEN Subtree(call.kids0, s)
               ELSE StrictDesc(call.kids0, s)
  IN {n \in scope :
        /\ PredOk(call.pred, n)
        /\ call.op # "findChildren" => TypeOf(n) \in call.types}

\* C1: findChildren, findChildrenOfType and findChildrenOfTypes return
\* exactly the nodes of the subtree that satisfy the predicate (and the type
\* test), each once, in document order, also below a match; the start node
\* is in the result only with includeSelf, and then it comes first.
C1_FindChildrenPreOrder ==
  last.op \in FindOps =>
    LET res == [i \in 1..Len(last.paths) |-> Value(last.paths[i])]
        s == NodeOf(last.src)
    IN /\ {res[i] : i \in 1..Len(res)} = Wanted(last)
       /\ \A i, j \in 1..Len(res) : i < j => Before(last.kids0, res[i], res[j])
       /\ (\E i \in 1..Len(res) : res[i] = s) => (last.includeSelf /\ res[1] = s)

\* A search from a wrapper that itself came out of a search, with the start
\* node first in the result and a match below another match.
C1_Witness ==
  /\ last.op \in FindOps
  /\ last.src.path.tok > 0
  /\ Len(last.paths) >= 3
  /\ Value(last.paths[1]) = NodeOf(last.src)
  /\ Value(last.paths[3]) \in StrictDesc(last.kids0, Value(last.paths[2]))

\* The nodes strictly below the start node that descend may return.
Candidates(call) ==
  {n \in StrictDesc(call.kids0, NodeOf(call.src)) : PredOk(call.pred, n)}

\* C2: descend returns the first node in document order strictly below the
\* start node that satisfies the predicate (any node when none is given),
\* never the start node, and nothing when there is no such node.
C2_DescendFirstMatch ==
  last.op = "descend" =>
    IF Candidates(last) = {}
    THEN ~IsWrapper(last.res)
    ELSE /\ IsWrapper(last.res)
         /\ NodeOf(last.res) \in Candidates(last)
         /\ NodeOf(last.res) # NodeOf(last.src)
         /\ \A n \in Candidates(last) \ {NodeOf(last.res)} :
              Before(last.kids0, NodeOf(last.res), n)

\* descend with a predicate the start node satisfies, and two nodes below
\* it to choose from.
C2_Witness ==
  /\ last.op = "descend"
  /\ last.pred.given
  /\ NodeOf(last.src) \in last.pred.sat
  /\ Cardinality(Candidates(last)) >= 2
  /\ IsWrapper(last.res)

\* The nodes the callback of descend is still handed after the match m: the
\* later siblings of m and of each ancestor of m below the start node.
LaterSiblings(k, s, m) ==
  {n \in Nodes : \E a \in Subtree(k, s) : \E i, j \in 1..Len(k[a]) :
      i < j /\ m \in Subtree(k, k[a][i]) /\ k[a][j] = n}

Ancestors(k, n) == {a \in Nodes : n \in StrictDesc(k, a)}

\* The wrapper came out of a search (it is not the wrapper parse returned).
Searched(w) == IsWrapper(w) /\ w.path.tok > 0

\* C4: ascend returns the nearest strict ancestor of the node that satisfies
\* the predicate (the immediate parent when none is given), nothing when no
\* ancestor satisfies it, and never the node itself.
C4_AscendNearestAncestor ==
  last.op = "ascend" =>
    LET n == NodeOf(last.src)
        anc == {a \in Ancestors(last.kids0, n) : PredOk(last.pred, a)}
    IN IF anc = {}
       THEN ~IsWrapper(last.res)
       ELSE /\ IsWrapper(last.res)
            /\ NodeOf(last.res) \in anc
            /\ NodeOf(last.res) # n
            /\ \A a \in anc \ {NodeOf(last.res)} :
                 NodeOf(last.res) \in StrictDesc(last.kids0, a)

\* C5: getRoot on a wrapper without a parent returns that same node.
C5_GetRootOfRoot ==
  (last.op = "getRoot" /\ ~HasParent(last.src)) =>
    (IsWrapper(last.res) /\ NodeOf(last.res) = NodeOf(last.src))

\* C6: for a wrapper found by any chain of searches from the parse root,
\* below the root node, getRoot is the parse root and ascend,
\* findParentOfType and findClosestParentOfType reach every ancestor the
\* node has in the tree.
C6_AncestryUpToParseRoot ==
  (Searched(last.src) /\ NodeOf(last.src) # 1) =>
    LET anc == Ancestors(last.kids0, NodeOf(last.src)) IN
    /\ last.op = "getRoot" => (IsWrapper(last.res) /\ NodeOf(last.res) = 1)
    /\ (last.op = "ascend" /\ last.pred.given /\ last.pred.sat \cap anc # {})
         => (IsWrapper(last.res) /\ NodeOf(last.res) \in last.pred.sat \cap anc)
    /\ (last.op \in {"findParentOfType", "findClosestParentOfType"}
          /\ \E a \in anc : TypeOf(a) \in last.types)
         => (IsWrapper(last.res) /\ NodeOf(last.res) \in anc
             /\ TypeOf(NodeOf(last.res)) \in last.types)

\* What format() of node n gives once newNode stands where old stood.
RECURSIVE formatWith(_, _, _, _)
RECURSIVE formatAllWith(_, _, _, _, _)
formatWith(k, n, old, newNode) ==
  IF n = old THEN format(k, newNode)
  ELSE <<n>> \o formatAllWith(k, k[n], 1, old, newNode)
formatAllWith(k, seq, i, old, newNode) ==
  IF i > Len(seq) THEN <<>>
  ELSE formatWith(k, seq[i], old, newNode)
         \o formatAllWith(k, seq, i + 1, old, newNode)

\* The slot of the parent that holds the value of the wrapper's path.
SlotOf(k, w) == IndexOf(k[Value(ParentPath(w.path))], NodeOf(w))

\* C7: replace on a wrapper with a parent puts the new node (unwrapped when
\* a wrapper was passed) into exactly the slot of the parent that held the
\* old node, changes no other slot, and the root renders with the new node
\* in place of the old one.
C7_ReplaceInSlot ==
  (last.op = "replace" /\ HasParent(last.src) /\ SlotOf(last.kids0, last.src) > 0) =>
    LET m == Value(ParentPath(last.src.path))
        slot == SlotOf(last.kids0, last.src)
    IN /\ ~last.threw
       /\ last.arg \in NewNodes
       /\ kids[m][slot] = last.arg
       /\ \A a \in Nodes :
            /\ Len(kids[a]) = Len(last.kids0[a])
            /\ \A j \in 1..Len(kids[a]) :
                 (a # m \/ j # slot) => kids[a][j] = last.kids0[a][j]
       /\ format(kids, NodeOf(ws[1])) =
            formatWith(last.kids0, NodeOf(last.ws0[1]), NodeOf(last.src), last.arg)

\* A wrapper was passed to replace and took the place of a node that has a
\* child and a sibling, inside the tree the root renders.
C7_Witness ==
  /\ last.op = "replace"
  /\ last.wrapped
  /\ HasParent(last.src)
  /\ ~last.threw
  /\ last.arg \in NewNodes
  /\ Len(last.kids0[NodeOf(last.src)]) > 0
  /\ Len(last.kids0[Value(ParentPath(last.src.path))]) > 1
  /\ IndexOf(format(kids, NodeOf(ws[1])), last.arg) > 0

\* C8: replace on a wrapper without a parent re-roots only that wrapper: its
\* node is the new node and it still has no parent; the tree, every other
\* wrapper and the list are as before.
C8_ReplaceRerootsWrapperOnly ==
  (last.op = "replace" /\ ~HasParent(last.src)) =>
    /\ ~last.threw
    /\ NodeOf(ws[last.idx]) = last.arg
    /\ ~HasParent(ws[last.idx])
    /\ ws[last.idx].cls = last.src.cls
    /\ kids = last.kids0
    /\ list = last.list0
    /\ Len(ws) = Len(last.ws0)
    /\ \A j \in 1..Len(ws) : j # last.idx => ws[j] = last.ws0[j]

\* The re-rooted wrapper had no parent while another wrapper held the same
\* raw node, and that other wrapper still holds it.
C8_Witness ==
  /\ last.op = "replace"
  /\ ~HasParent(last.src)
  /\ \E j \in 1..Len(ws) :
       /\ j # last.idx
       /\ NodeOf(last.ws0[j]) = NodeOf(last.src)
       /\ NodeOf(ws[j]) = NodeOf(last.src)
  /\ NodeOf(ws[last.idx]) = last.arg

\* C9: remove on a wrapper without a parent changes nothing; on a wrapper
\* with a parent it takes exactly that node out of its parent: the subtree
\* below it leaves the tree, every other node keeps its children.
C9_RemoveDetachesSubtree ==
  last.op = "remove" =>
    IF ~HasParent(last.src)
    THEN ~last.threw /\ kids = last.kids0 /\ ws = last.ws0 /\ list = last.list0
    ELSE SlotOf(last.kids0, last.src) > 0 =>
      LET m == Value(ParentPath(last.src.path))
          r == NodeOf(last.ws0[1])
      IN /\ ~last.threw
         /\ kids[m] = RemoveAt(last.kids0[m], SlotOf(last.kids0, last.src))
         /\ \A a \in Nodes \ {m} : kids[a] = last.kids0[a]
         /\ Subtree(kids, r) =
              Subtree(last.kids0, r) \
                (IF m \in Subtree(last.kids0, r)
                 THEN Subtree(last.kids0, NodeOf(last.src)) ELSE {})

\* remove took a node with a child out of a parent that keeps another child.
C9_Witness ==
  /\ last.op = "remove"
  /\ HasParent(last.src)
  /\ ~last.threw
  /\ Len(last.kids0[NodeOf(last.src)]) > 0
  /\ Len(kids[Value(ParentPath(last.src.path))]) > 0
  /\ NodeOf(last.src) \notin Subtree(kids, 1)

\* The elements of seq that fail the predicate, in order.
RECURSIVE Rejected(_, _)
Rejected(seq, pred) ==
  IF seq = <<>> THEN <<>>
  ELSE (IF PredOk(pred, Head(seq)) THEN <<>> ELSE <<Head(seq)>>)
         \o Rejected(Tail(seq), pred)

\* C10: removeChildren prunes every direct child that satisfies the
\* predicate (every direct child when none is given) and nothing else: the
\* other direct children stay, in order, with their subtrees as they were;
\* without a predicate children() is empty afterwards.
C10_RemoveChildrenDirectOnly ==
  last.op = "removeChildren" =>
    LET s == NodeOf(last.src) IN
    /\ kids[s] = Rejected(last.kids0[s], last.pred)
    /\ \A a \in Nodes \ {s} : kids[a] = last.kids0[a]
    /\ ~last.pred.given =>
         visit(0, s, [op |-> "children", self |-> s], kids).paths = <<>>

\* removeChildren pruned a direct child and kept another one whose subtree
\* holds a node that satisfies the predicate.
C10_Witness ==
  /\ last.op = "removeChildren"
  /\ last.pred.given
  /\ Len(kids[NodeOf(last.src)]) < Len(last.kids0[NodeOf(last.src)])
  /\ \E c \in Nodes :
       /\ IsChild(kids, NodeOf(last.src), c)
       /\ StrictDesc(kids, c) \cap last.pred.sat # {}

\* C11: removeDescendants prunes every node below the start node that
\* satisfies the predicate, at any depth, several in one list included: every
\* node that stays below the start node keeps exactly its children that fail
\* the predicate, in order; the nodes outside the start node's subtree, and
\* the start node's own place in the tree, are as they were.
C11_RemoveDescendantsAllDepths ==
  last.op = "removeDescendants" =>
    LET s == NodeOf(last.src)
        kept == {a \in Subtree(last.kids0, s) :
                   \A b \in Subtree(last.kids0, s) \ {s} :
                     a \in Subtree(last.kids0, b) => ~PredOk(last.pred, b)}
    IN /\ \A a \in kept : kids[a] = Rejected(last.kids0[a], last.pred)
       /\ \A a \in Nodes \ Subtree(last.kids0, s) : kids[a] = last.kids0[a]
       /\ s \in Subtree(last.kids0, 1) => s \in Subtree(kids, 1)

\* C12: in build, every argument that declares a property rule and finds a
\* property of its name in props, whatever its value, is bound to the
\* converted property value, and binding it takes no child out of the pool
\* and does not use the default.
C12_PropertyBindsFirst ==
  last.op = "build" =>
    \A j \in 1..Len(last.build.binds) :
      LET bind == last.build.binds[j]
          mp == MetaAt(last.build.meta, bind.name)
          prop == last.build.props[bind.name]
      IN (prop.k # "undefined" /\ mp.fromProp # "none") =>
           /\ bind.rule = "prop"
           /\ bind.node = buildConvert(ApplyFromProp(mp.fromProp, prop), mp)
           /\ bind.took = <<>>

\* The children of the call, by ix, that pass the type check of a rule.
Hits(b, seq, types) ==
  SelectSeq(seq, LAMBDA x : SomeType(b.flat[x], types))
\* seq without the elements of gone.
Without(seq, gone) ==
  SelectSeq(seq, LAMBDA x : \A g \in 1..Len(gone) : gone[g] # x)
\* The pool a round leaves behind.
After(bind) == Without(bind.before, bind.took)

\* C13: an argument without a property that declares a single-child rule,
\* with a matching child still in the pool, is bound to the leftmost such
\* child (converted); that child and no other leaves the pool and the rest
\* keeps its order.
C13_SingleChildLeftmost ==
  last.op = "build" =>
    \A j \in 1..Len(last.build.binds) :
      LET b == last.build
          bind == b.binds[j]
          mp == MetaAt(b.meta, bind.name)
          hits == Hits(b, bind.before, mp.fromChild.types)
      IN (b.props[bind.name].k = "undefined" /\ mp.fromChild.given
            /\ hits # <<>>) =>
           /\ bind.rule = "child"
           /\ bind.node = buildConvert(b.flat[Head(hits)], mp)
           /\ After(bind) = Without(bind.before, <<Head(hits)>>)

\* The converted values of the children seq (by ix) under a rule.
Converted(b, seq, mp) ==
  [j \in 1..Len(seq) |-> buildConvert(b.flat[seq[j]], mp)]

\* C14: an argument bound by the multiple-children rule receives the
\* converted values of all children that are in the pool when the rule runs
\* and match its types, in their order; exactly those leave the pool.
C14_AllMatchingChildren ==
  last.op = "build" =>
    \A j \in 1..Len(last.build.binds) :
      LET b == last.build
          bind == b.binds[j]
          mp == MetaAt(b.meta, bind.name)
          pool == Without(bind.before, Without(bind.took, bind.used))
          hits == Hits(b, pool, mp.fromChildren.types)
      IN bind.rule = "children" =>
           /\ bind.used = hits
           /\ bind.node = Array(Converted(b, hits, mp))
           /\ After(bind) = Without(pool, hits)

\* The multiple-children rule took two children that stood next to each
\* other and left a third one in the pool.
C14_Witness ==
  /\ last.op = "build"
  /\ \E j \in 1..Len(last.build.binds) :
       LET bind == last.build.binds[j] IN
       /\ bind.rule = "children"
       /\ Len(bind.used) = 2
       /\ bind.used[2] = bind.used[1] + 1
       /\ After(bind) # <<>>

\* No rule can bind the argument: no property of its name for a property
\* rule, no matching
\* child in the pool, no multiple-children rule, no default (none declared,
\* or one that yields undefined).
Unbindable(b, bind) ==
  LET mp == MetaAt(b.meta, bind.name) IN
  /\ ~(mp.fromProp # "none" /\ b.props[bind.name].k # "undefined")
  /\ ~(mp.fromChild.given /\ Hits(b, bind.before, mp.fromChild.types) # <<>>)
  /\ ~mp.fromChildren.given
  /\ buildNodeFromDefault(mp).k = "undefined"

\* C15: build fails with the missing-binding error, naming the argument and
\* the class, exactly when an argument can be bound by no rule; otherwise
\* every declared argument gets a binding, a default that is a function
\* being called for its value.
C15_MissingBindingExactly ==
  last.op = "build" =>
    LET b == last.build
        stuck == {j \in 1..Len(b.binds) : Unbindable(b, b.binds[j])}
    IN IF stuck # {}
       THEN /\ last.threw
            /\ b.error = "MissingBinding"
            /\ \E j \in stuck : b.errName = b.binds[j].name
            /\ b.errClass = last.src.cls
       ELSE /\ b.error # "MissingBinding"
            /\ Len(b.binds) = Len(b.meta)
            /\ \A j \in 1..Len(b.binds) :
                 /\ b.binds[j].node.k # "undefined"
                 /\ b.binds[j].rule = "default" =>
                      b.binds[j].node = MetaAt(b.meta, b.binds[j].name).default.val

UsedBy(b, x) ==
  {j \in 1..Len(b.binds) :
     \E u \in 1..Len(b.binds[j].used) : b.binds[j].used[u] = x}

\* C17: binding consumes and drops nothing: the declared arguments are bound
\* once each, in a call that gets past binding; no child is part of two
\* arguments; and when build succeeds every child of the flattened list is
\* part of exactly one argument.
C17_ConsumingNothingDropped ==
  last.op = "build" =>
    LET b == last.build IN
    /\ \A j, h \in 1..Len(b.binds) :
         j # h => b.binds[j].name # b.binds[h].name
    /\ b.error # "MissingBinding" =>
         {b.binds[j].name : j \in 1..Len(b.binds)} =
           {b.meta[j].name : j \in 1..Len(b.meta)}
    /\ \A x \in 1..Len(b.flat) : Cardinality(UsedBy(b, x)) <= 1
    /\ (~last.threw) =>
         \A x \in 1..Len(b.flat) : Cardinality(UsedBy(b, x)) = 1

C19_NoEmptyWrapper ==
  last.op = "build" =>
    LET b == last.build IN
    /\ (~last.threw) => NodeOf(ws[last.idx]) \notin {NullNode, UndefinedNode}
    /\ b.calls = 1 =>
         /\ b.out = "throws" =>
              (last.threw /\ b.error = "BuilderFailure"
                 /\ b.errClass = last.src.cls)
         /\ b.out \in {"undefined", "null"} =>
              (last.threw /\ b.error = "EmptyBuilderResult")

\* The class registered last under a name, NoType when there is none.
RECURSIVE LatestOf(_, _)
LatestOf(seq, name) ==
  IF seq = <<>> THEN NoType
  ELSE IF seq[Len(seq)].name = name THEN seq[Len(seq)].ver
  ELSE LatestOf(SubSeq(seq, 1, Len(seq) - 1), name)

\* C20: after any registerType calls create does not fail; it makes an
\* instance of the class registered last under the type name, and a plain
\* JsNode when no class was registered under it.
C20_CreateLatestOrBase ==
  last.op = "create" =>
    LET latest == LatestOf(registrations, last.name) IN
    /\ ~last.threw
    /\ ~IsPath(last.res.path)
    /\ IF latest = NoType
       THEN last.made = [cls |-> "JsNode", ver |-> NoType]
       ELSE last.made = [cls |-> last.name, ver |-> latest]
    /\ last.res.cls = last.made.cls

\* create was asked for a name under which two different classes were
\* registered one after the other.
C20_Witness ==
  /\ last.op = "create"
  /\ \E j, h \in 1..Len(registrations) :
       /\ j < h
       /\ registrations[j].name = last.name
       /\ registrations[h].name = last.name
       /\ registrations[j].ver # registrations[h].ver
       /\ last.made.ver = registrations[h].ver

\* The type a cast call was made with.
TypeOfCall(call) == CastType(call.name, call.pred)

\* C21: castTo on a wrapper that is an instance of the type returns that
\* wrapper, path unchanged; casting the result of a cast to the same type
\* again returns it again (same path); no cast changes the tree or the
\* wrapper it is called on.
C21_CastIdempotent ==
  last.op = "castTo" =>
    /\ kids = last.kids0
    /\ ws[last.idx] = last.src
    /\ InstanceOf(last.src, TypeOfCall(last)) =>
         (~last.threw /\ last.same /\ last.res = last.src)
    /\ (~last.threw) =>
         /\ castTo(last.res, TypeOfCall(last)).same
         /\ ~castTo(last.res, TypeOfCall(last)).threw
         /\ castTo(last.res, TypeOfCall(last)).res.path = last.res.path

\* A wrapper that an earlier cast made for a complex type was cast to that
\* type again.
C21_Witness ==
  /\ last.op = "castTo"
  /\ last.idx > 1
  /\ last.src.cls = "Component"
  /\ last.name = "Component"
  /\ last.same
  /\ HasParent(last.src)

\* C22 as the claim states it: castTo fails for every type without a check,
\* whatever the wrapper.
C22_CastWithoutCheckFails ==
  (last.op = "castTo" /\ ~last.pred.given) => last.threw

\* C22: castTo to a type without a check fails exactly when the wrapper is
\* not an instance of that type; an instance is returned as it is.
C22_CastWithoutCheckFailsUnlessInstance ==
  (last.op = "castTo" /\ ~last.pred.given) =>
    /\ last.threw = ~InstanceOf(last.src, TypeOfCall(last))
    /\ last.threw => (ws = last.ws0 /\ ~IsWrapper(last.res))
    /\ (~last.threw) => (last.same /\ last.res = last.src)

\* A wrapper found by a search was cast to a node class it is no instance
\* of, and the cast failed.
C22_Witness ==
  /\ last.op = "castTo"
  /\ ~last.pred.given
  /\ last.threw
  /\ HasParent(last.src)
  /\ last.src.cls = "Identifier"
  /\ last.name = "Literal"

\* C23: castTo to a type with a check does not fail, whether or not the
\* check accepts the node: the result is a wrapper of (a subclass of) the
\* type over the same path, and the wrapper cast from is unchanged.
C23_CastWithCheckSucceeds ==
  (last.op = "castTo" /\ last.pred.given) =>
    /\ ~last.threw
    /\ InstanceOf(last.res, TypeOfCall(last))
    /\ last.res.path = last.src.path
    /\ ws[last.idx] = last.src
    /\ kids = last.kids0

\* A cast gave a new wrapper of a complex type whose check rejects the node.
C23_Witness ==
  /\ last.op = "castTo"
  /\ last.pred.given
  /\ NodeOf(last.src) \notin last.pred.sat
  /\ ~last.same
  /\ last.res.cls = last.name
  /\ ~canCastTo(last.src, TypeOfCall(last)).ok

\* C30: canCastTo fails for every type without a check, also on an instance
\* of the type; for a type with a check it answers instance-of or check;
\* it changes nothing.
C30_CanCastTo ==
  last.op = "canCastTo" =>
    /\ last.threw = ~last.pred.given
    /\ (~last.threw) =>
         last.ok = (InstanceOf(last.src, TypeOfCall(last))
                      \/ NodeOf(last.src) \in last.pred.sat)
    /\ kids = last.kids0 /\ ws = last.ws0 /\ list = last.list0

\* canCastTo failed on a wrapper that castTo returns as it is.
C30_Witness ==
  /\ last.op = "canCastTo"
  /\ last.threw
  /\ last.src.cls = last.name
  /\ castTo(last.src, TypeOfCall(last)).same

Before1(call) ==
  IF call.which = 1 THEN call.list0
  ELSE [type |-> call.other0.type, paths |-> call.other0.paths]
Before2(call) ==
  IF call.which = 2 THEN call.list0
  ELSE [type |-> call.other0.type, paths |-> call.other0.paths]
After1(call) == Sel(call.which)
After2(call) == Sel(3 - call.which)
\* The subsequence of the paths whose node the predicate accepts.
RECURSIVE Satisfying(_, _, _)
Satisfying(paths, pred, gone) ==
  IF paths = <<>> THEN <<>>
  ELSE (IF (~Broken(Head(paths), gone)) /\ Value(Head(paths)) \in pred.sat
        THEN <<Head(paths)>> ELSE <<>>) \o Satisfying(Tail(paths), pred, gone)

\* C25: filter changes the list it is called on and returns that list; the
\* list then holds exactly the elements that satisfy the predicate, in their
\* order; the tree is untouched, and a copy taken before the call still
\* holds all the original elements.
C25_FilterInPlace ==
  (last.op = "filter" /\ ~last.threw) =>
    /\ last.same
    /\ After1(last).paths = Satisfying(Before1(last).paths, last.pred, dead)
    /\ After1(last).type = Before1(last).type
    /\ kids = last.kids0
    /\ ws = last.ws0
    /\ After2(last) = Before2(last)

\* filter dropped an element of list and kept another, and the copy taken
\* before still holds every element.
C25_Witness ==
  /\ last.op = "filter"
  /\ last.which = 1
  /\ ~last.threw
  /\ Len(list.paths) > 0
  /\ Len(list.paths) < Len(last.list0.paths)
  /\ other.paths = last.list0.paths
  /\ other.type = last.list0.type

\* C26: a.concat(b) fails with the type-mismatch error when the element
\* types of a and b differ; otherwise it gives a new list of size a + b that
\* holds the paths of a followed by the paths of b; a and b are unchanged.
C26_ConcatSameType ==
  last.op = "concat" =>
    /\ Before1(last).type # Before2(last).type =>
         /\ last.threw
         /\ last.err = "Can not concatenate lists of different type"
         /\ last.out = NoList
    /\ Before1(last).type = Before2(last).type =>
         /\ ~last.threw
         /\ Len(last.out.paths) = Len(Before1(last).paths) + Len(Before2(last).paths)
         /\ \A j \in 1..Len(Before1(last).paths) :
              last.out.paths[j] = Before1(last).paths[j]
         /\ \A j \in 1..Len(Before2(last).paths) :
              last.out.paths[Len(Before1(last).paths) + j] = Before2(last).paths[j]
    /\ list = last.list0
    /\ other = last.other0
    /\ kids = last.kids0

\* Two lists of the same element type and of different contents were
\* concatenated.
C26_Witness ==
  /\ last.op = "concat"
  /\ ~last.threw
  /\ list.type = "Identifier"
  /\ list.paths # other.paths
  /\ Len(last.out.paths) = 3

\* C27: removeAll takes every element of the list out of the tree and leaves
\* the list as it was; the list a copy was taken of keeps its size and its
\* paths when removeAll is called on the copy, and a later push or filter
\* on one of the two lists never changes the other.
C27_RemoveAllKeepsLists ==
  /\ (last.op = "removeAll" /\ ~last.threw) =>
       /\ \A j \in 1..Len(Before1(last).paths) :
            /\ ~InParent(kids, Before1(last).paths[j])
            /\ Before1(last).paths[j] \in dead
       /\ After1(last) = Before1(last)
       /\ After2(last) = Before2(last)
  /\ last.op = "removeAll" => (list = last.list0 /\ other = last.other0)
  /\ last.op \in {"push", "filter"} =>
       /\ After2(last) = Before2(last)
       /\ Len(After2(last).paths) = Len(Before2(last).paths)

\* removeAll was called on a copy of a list of two elements, and then a
\* wrapper was pushed onto the copy.
C27_Witness ==
  /\ last.op = "push"
  /\ last.which = 2
  /\ Len(list.paths) = 2
  /\ \A j \in 1..Len(list.paths) : list.paths[j] \in dead /\ ~InParent(kids, list.paths[j])
  /\ other.paths = Append(list.paths, last.src.path)
  /\ other.type = list.type

\* A wrapper or list element that refers to the tree position the replaced
\* wrapper referred to: its path has a value, and that value is the same raw
\* node.
AliasOf(p, call) ==
  IsPath(p) /\ Value(p) = NodeOf(call.src)
\* The alias holds the very path object of the replaced wrapper.
SamePath(p, call) == p = call.src.path

\* C28 as the claim states it: after replace through one wrapper, the node
\* of every other wrapper and list element that referred to the same tree
\* position, also one a separate earlier search gave, is the new node.
\* Only the replace that edits the tree, through a wrapper with a parent, is
\* looked at.
C28_EveryAliasSeesReplace ==
  (last.op = "replace" /\ ~last.threw /\ HasParent(last.src)) =>
    /\ \A j \in 1..Len(last.ws0) :
         AliasOf(last.ws0[j].path, last) => NodeOf(ws[j]) = last.arg
    /\ \A j \in 1..Len(last.list0.paths) :
         AliasOf(last.list0.paths[j], last) => Value(list.paths[j]) = last.arg

\* C28: after replace through a wrapper that has a parent, the tree holds
\* the new node in the slot, and every wrapper and list element that holds
\* the path object of that wrapper shows the new node at once; a wrapper or
\* list element a separate search gave has a path object of its own and
\* still shows the replaced node.
C28_SamePathSeesReplace ==
  (last.op = "replace" /\ ~last.threw /\ HasParent(last.src)) =>
    /\ IndexOf(kids[Value(ParentPath(last.src.path))], last.arg) > 0
    /\ IndexOf(kids[Value(ParentPath(last.src.path))], NodeOf(last.src)) = 0
    /\ \A j \in 1..Len(last.ws0) :
         AliasOf(last.ws0[j].path, last) =>
           IF SamePath(last.ws0[j].path, last)
           THEN NodeOf(ws[j]) = last.arg
           ELSE ws[j] = last.ws0[j]
    /\ \A j \in 1..Len(last.list0.paths) :
         AliasOf(last.list0.paths[j], last) =>
           IF SamePath(last.list0.paths[j], last)
           THEN Value(list.paths[j]) = last.arg
           ELSE list.paths[j] = last.list0.paths[j]

\* Two searches each gave a wrapper of the same raw node; one was replaced
\* and the other still shows the old node, which the tree no longer holds.
C28_Witness ==
  /\ last.op = "replace"
  /\ ~last.threw
  /\ HasParent(last.src)
  /\ \E j \in 1..Len(ws) :
       /\ j # last.idx
       /\ HasParent(ws[j])
       /\ NodeOf(last.ws0[j]) = NodeOf(last.src)
       /\ NodeOf(ws[j]) = NodeOf(last.src)
       /\ NodeOf(ws[j]) # last.arg
  /\ NodeOf(ws[last.idx]) = last.arg
  /\ IndexOf(format(kids, NodeOf(ws[1])), NodeOf(last.src)) = 0

\* The last argument buildNodes tried got no value.
BindingFailed(b) ==
  b.binds # <<>> /\ b.binds[Len(b.binds)].node.k = "undefined"

====
